---- MODULE Spec2Model ----
(***************************************************************************)
(* Model of ProfessionalKnowledgeAgent (src/src/agents/claude_agent.py):   *)
(* the chunker, the document store / vector index pair, the knowledge base *)
(* search with its recent-searches log, the intent parser, the time-window *)
(* rule, the email handler, and chat with its dispatch to the handlers.    *)
(*                                                                         *)
(* A text is a sequence of one-character strings.  A score is an integer   *)
(* in tenths (0.2 is 2).  An embedding is a direction (a multiple of 60    *)
(* degrees) and a length, so that inner products are exact integers.       *)
(***************************************************************************)
EXTENDS Integers, Sequences, FiniteSets, TLC

VARIABLES
    db,                          \* rows of the documents table, in id order
    document_chunks,             \* self.document_chunks: <<doc_id, content>> pairs
    vector_index,                \* self.vector_index: None, or the vectors indexed
    recent_knowledge_searches,   \* self.recent_knowledge_searches
    services,                    \* which of self.calendar_service, self.gmail_service are there
    rebuild,                     \* the build_vector_index call in progress, if one is
    call                         \* the last call made on the agent and what it returned

vars == <<db, document_chunks, vector_index, recent_knowledge_searches, services, rebuild,
          call>>

\* self.vector_index = None
NoIndex == [built |-> FALSE, vectors |-> <<>>]

\* no build_vector_index call is executing
NoRebuild == [active |-> FALSE]

\* self.calendar_service = None, self.gmail_service = None: no credentials found
NoServices == [calendar_service |-> FALSE, gmail_service |-> FALSE]

\* an IndexFlatIP holding the given vectors, in the order they were added
IndexFlatIP(vectors) == [built |-> TRUE, vectors |-> vectors]

(***************************************************************************)
(* Bounds of the model.                                                    *)
(***************************************************************************)
MaxTextLen == 5        \* longest text handed to chunk_text on its own
MaxChunkSize == 4      \* largest chunk_size handed to chunk_text on its own
MaxOverlap == 11       \* largest overlap handed to chunk_text on its own
MaxResponseParts == 3  \* fragments in a completion handed to detect_user_intent
MaxMessageParts == 2   \* fragments in a message handed to extract_time_context
MaxRows == 3           \* rows the documents table may hold
MaxTopK == 2           \* largest top_k of a search
MaxLogRows == 2        \* rows the documents table may hold under SpecLog

(***************************************************************************)
(* Python string primitives.                                               *)
(***************************************************************************)
IsWs(c) == c \in {" ", "\n", "\t"}

IsTerm(c) == c \in {".", "!", "?"}

Min(S) == CHOOSE m \in S : \A n \in S : m <= n

RECURSIVE SortedSeq(_)
SortedSeq(S) == IF S = {} THEN <<>> ELSE <<Min(S)>> \o SortedSeq(S \ {Min(S)})

\* str.strip()
Strip(s) ==
    IF \A i \in 1..Len(s) : IsWs(s[i]) THEN <<>>
    ELSE LET b == CHOOSE i \in 1..Len(s) :
                      ~IsWs(s[i]) /\ \A k \in 1..(i - 1) : IsWs(s[k])
             e == CHOOSE j \in 1..Len(s) :
                      ~IsWs(s[j]) /\ \A k \in (j + 1)..Len(s) : IsWs(s[k])
         IN  SubSeq(s, b, e)

\* the last position of the run of whitespace, or of non-whitespace, that s[i] is in
RunEnd(s, i) ==
    LET ends(j) == j = Len(s) \/ IsWs(s[j + 1]) # IsWs(s[i])
    IN  CHOOSE j \in i..Len(s) : ends(j) /\ \A k \in i..(j - 1) : ~ends(k)

\* str.split(): the maximal runs of non-whitespace characters
Split(s) ==
    LET starts == SortedSeq({i \in 1..Len(s) :
                       ~IsWs(s[i]) /\ (i = 1 \/ IsWs(s[i - 1]))})
    IN  [n \in 1..Len(starts) |-> SubSeq(s, starts[n], RunEnd(s, starts[n]))]

\* " ".join(words)
RECURSIVE Join(_)
Join(words) ==
    IF words = <<>> THEN <<>>
    ELSE IF Len(words) = 1 THEN words[1]
    ELSE words[1] \o <<" ">> \o Join(Tail(words))

\* seq[start:] with Python's negative and out-of-range starts
SliceFrom(seq, start) ==
    LET n == Len(seq)
        b == IF start < 0 THEN (IF n + start < 0 THEN 0 ELSE n + start)
             ELSE (IF start > n THEN n ELSE start)
    IN  SubSeq(seq, b + 1, n)

\* re.split(r'(?<=[.!?])\s+', text): a separator is a maximal whitespace run
\* that directly follows a sentence terminator
SplitSentences(text) ==
    LET seps == SortedSeq({i \in 2..Len(text) :
                      IsWs(text[i]) /\ IsTerm(text[i - 1])})
        m == Len(seps)
        from(n) == IF n = 1 THEN 1 ELSE RunEnd(text, seps[n - 1]) + 1
        to(n) == IF n = m + 1 THEN Len(text) ELSE seps[n] - 1
    IN  [n \in 1..(m + 1) |-> SubSeq(text, from(n), to(n))]

(***************************************************************************)
(* chunk_text.  The loop state carries, next to chunks and current_chunk,  *)
(* a record of how each buffer was made: the overlap prefix it was seeded  *)
(* with and the range of sentences appended to it.                         *)
(***************************************************************************)
\* words[-overlap//5:] if len(words) > overlap//5 else words
OverlapWords(words, overlap) ==
    IF Len(words) > overlap \div 5
    THEN SliceFrom(words, (0 - overlap) \div 5)
    ELSE words

ChunkInit ==
    [chunks |-> <<>>, current_chunk |-> <<>>, parts |-> <<>>,
     prefix |-> <<>>, seeded |-> FALSE, first |-> 1]

\* one iteration of the loop over sentences (lines 111-120)
ChunkStep(st, sentence, i, chunk_size, overlap) ==
    IF Len(st.current_chunk) + Len(sentence) > chunk_size /\ st.current_chunk # <<>>
    THEN LET tail == Join(OverlapWords(Split(st.current_chunk), overlap))
         IN  [chunks |-> Append(st.chunks, Strip(st.current_chunk)),
              current_chunk |-> tail \o <<" ">> \o sentence,
              parts |-> Append(st.parts, [prefix |-> st.prefix, seeded |-> st.seeded,
                                          first |-> st.first, last |-> i - 1]),
              prefix |-> tail, seeded |-> TRUE, first |-> i]
    ELSE [st EXCEPT !.current_chunk =
                 IF st.current_chunk # <<>> THEN st.current_chunk \o <<" ">> \o sentence
                 ELSE sentence]

RECURSIVE ChunkLoop(_, _, _, _, _)
ChunkLoop(st, sentences, i, chunk_size, overlap) ==
    IF i > Len(sentences) THEN st
    ELSE ChunkLoop(ChunkStep(st, sentences[i], i, chunk_size, overlap),
                   sentences, i + 1, chunk_size, overlap)

ChunkFlushNever(st, n) == st

\* the last chunk (lines 122-124)
ChunkFlush(st, n) ==
    IF Strip(st.current_chunk) # <<>>
    THEN [st EXCEPT !.chunks = Append(st.chunks, Strip(st.current_chunk)),
                    !.parts = Append(st.parts, [prefix |-> st.prefix, seeded |-> st.seeded,
                                                first |-> st.first, last |-> n])]
    ELSE st

\* the whole run of chunk_text, with the record of its buffers
ChunkRun(text, chunk_size, overlap) ==
    LET sentences == SplitSentences(text)
        st == ChunkFlush(ChunkLoop(ChunkInit, sentences, 1, chunk_size, overlap),
                         Len(sentences))
    IN  [sentences |-> sentences, chunks |-> st.chunks, parts |-> st.parts,
         current_chunk |-> st.current_chunk]

chunk_text(text, chunk_size, overlap) == ChunkRun(text, chunk_size, overlap).chunks

(***************************************************************************)
(* The chunker on its own: chunk_text applied to every text over a small   *)
(* alphabet, every chunk_size and every overlap within the bounds.         *)
(***************************************************************************)
ChunkAlphabet == {"a", ".", " "}

RECURSIVE TextsUpTo(_, _)
TextsUpTo(alphabet, n) ==
    IF n = 0 THEN {<<>>}
    ELSE LET shorter == TextsUpTo(alphabet, n - 1)
         IN  shorter \cup {Append(t, c) : t \in {s \in shorter : Len(s) = n - 1},
                                          c \in alphabet}

ChunkTexts == TextsUpTo(ChunkAlphabet, MaxTextLen)

ChunkSizes == 1..MaxChunkSize

Overlaps == {0, 3, 5, 7, 10} \cap (0..MaxOverlap)

Idle == [op |-> "none"]

InitAgentEmpty ==
    /\ db = <<>>
    /\ document_chunks = <<>>
    /\ vector_index = NoIndex
    /\ recent_knowledge_searches = <<>>
    /\ services = NoServices
    /\ rebuild = NoRebuild

agent == <<db, document_chunks, vector_index, recent_knowledge_searches, services, rebuild>>

\* the arguments of a chunk_text call about to be made
InitChunk ==
    /\ InitAgentEmpty
    /\ \E text \in ChunkTexts, chunk_size \in ChunkSizes, overlap \in Overlaps :
           call = [op |-> "call_chunk_text", text |-> text,
                   chunk_size |-> chunk_size, overlap |-> overlap]

ChunkText ==
    /\ call.op = "call_chunk_text"
    /\ call' = [op |-> "chunk_text", text |-> call.text, chunk_size |-> call.chunk_size,
                overlap |-> call.overlap,
                run |-> ChunkRun(call.text, call.chunk_size, call.overlap),
                ret |-> chunk_text(call.text, call.chunk_size, call.overlap)]
    /\ UNCHANGED agent

NextChunk == ChunkText

SpecChunk == InitChunk /\ [][NextChunk]_vars

\* the sentences appended to the k-th buffer of a run, joined as the loop joins them
ChunkBody(run, k) ==
    Join(SubSeq(run.sentences, run.parts[k].first, run.parts[k].last))

\* the overlap prefix of the k-th buffer with its joining space, empty for an
\* unseeded buffer
ChunkPrefix(run, k) ==
    IF run.parts[k].seeded THEN run.parts[k].prefix \o <<" ">> ELSE <<>>

\* the buffers of a run take the sentences in order, each sentence once
PartsInOrder(run) ==
    /\ Len(run.chunks) = Len(run.parts)
    /\ \A k \in 1..Len(run.parts) :
           /\ run.parts[k].first <= run.parts[k].last
           /\ run.parts[k].first = IF k = 1 THEN 1 ELSE run.parts[k - 1].last + 1

(***************************************************************************)
(* C9: no chunk of chunk_text has more than chunk_size characters before   *)
(* the overlap prefix is counted, except a chunk that consists of a single *)
(* sentence that alone exceeds chunk_size.                                 *)
(***************************************************************************)
C9_ChunkWithinSize ==
    call.op = "chunk_text" =>
        \A k \in 1..Len(call.run.parts) :
            \/ Len(Strip(ChunkBody(call.run, k))) <= call.chunk_size
            \/ /\ call.run.parts[k].first = call.run.parts[k].last
               /\ Len(call.run.sentences[call.run.parts[k].first]) > call.chunk_size

(***************************************************************************)
(* C10 as stated: every chunk, its overlap prefix removed, is exactly the  *)
(* sentences appended to its buffer; the buffers take every sentence once, *)
(* in order (the empty text has no sentence to place); and a final buffer  *)
(* that is not empty is the last chunk.                                    *)
(***************************************************************************)
C10_ExactSentences ==
    call.op = "chunk_text" =>
        /\ PartsInOrder(call.run)
        /\ \A k \in 1..Len(call.run.parts) :
               call.ret[k] = ChunkPrefix(call.run, k) \o ChunkBody(call.run, k)
        /\ IF call.text = <<>> THEN call.ret = <<>>
           ELSE /\ call.run.parts # <<>>
                /\ call.run.parts[Len(call.run.parts)].last = Len(call.run.sentences)
        /\ call.run.current_chunk # <<>> =>
               /\ call.ret # <<>>
               /\ call.ret[Len(call.ret)] = call.run.current_chunk

(***************************************************************************)
(* C10 as amended: the same up to the whitespace strip() trims from the    *)
(* two ends of a chunk; a text with no character other than whitespace     *)
(* gives no chunk, every other text has all its sentences in the chunks,   *)
(* and a final buffer with a non-whitespace character is the last chunk.   *)
(***************************************************************************)
C10_SentencesUpToStrip ==
    call.op = "chunk_text" =>
        /\ PartsInOrder(call.run)
        /\ \A k \in 1..Len(call.run.parts) :
               call.ret[k] = Strip(ChunkPrefix(call.run, k) \o ChunkBody(call.run, k))
        /\ IF Strip(call.text) = <<>> THEN call.ret = <<>>
           ELSE /\ call.run.parts # <<>>
                /\ call.run.parts[Len(call.run.parts)].last = Len(call.run.sentences)
        /\ Strip(call.run.current_chunk) # <<>> =>
               /\ call.ret # <<>>
               /\ call.ret[Len(call.ret)] = Strip(call.run.current_chunk)

\* a text of three sentences chunked into more than one chunk, the later ones
\* seeded with an overlap prefix
C10_Witness ==
    /\ call.op = "chunk_text"
    /\ Len(call.run.sentences) = 3
    /\ Len(call.ret) >= 2
    /\ call.run.parts[2].seeded
    /\ call.run.parts[Len(call.run.parts)].last = 3

(***************************************************************************)
(* str.upper(), str.lower() and the substring test `pat in text`.          *)
(***************************************************************************)
Letters == <<"a", "b", "c", "d", "e", "f", "g", "h", "i", "j", "k", "l", "m", "n", "o", "p", "q", "r", "s", "t", "u", "v", "w", "x", "y", "z">>

Capitals == <<"A", "B", "C", "D", "E", "F", "G", "H", "I", "J", "K", "L", "M", "N", "O", "P", "Q", "R", "S", "T", "U", "V", "W", "X", "Y", "Z">>

UpperChar(c) ==
    IF \E i \in 1..Len(Letters) : Letters[i] = c
    THEN Capitals[CHOOSE i \in 1..Len(Letters) : Letters[i] = c]
    ELSE c

LowerChar(c) ==
    IF \E i \in 1..Len(Capitals) : Capitals[i] = c
    THEN Letters[CHOOSE i \in 1..Len(Capitals) : Capitals[i] = c]
    ELSE c

Upper(text) == [i \in 1..Len(text) |-> UpperChar(text[i])]

Lower(text) == [i \in 1..Len(text) |-> LowerChar(text[i])]

Contains(text, pat) ==
    \E i \in 0..(Len(text) - Len(pat)) : SubSeq(text, i + 1, i + Len(pat)) = pat

ContainsAny(text, pats) == \E pat \in pats : Contains(text, pat)

(***************************************************************************)
(* detect_user_intent, from the text call_claude returned (lines 325-334). *)
(***************************************************************************)
KwCALENDAR == <<"C", "A", "L", "E", "N", "D", "A", "R">>

KwEMAIL == <<"E", "M", "A", "I", "L">>

KwANALYSIS == <<"A", "N", "A", "L", "Y", "S", "I", "S">>

Intents == {"CALENDAR", "EMAIL", "ANALYSIS", "KNOWLEDGE"}

detect_user_intent_email_first(completion) ==
    LET response == Upper(Strip(completion))
    IN  IF Contains(response, KwEMAIL) THEN "EMAIL"
        ELSE IF Contains(response, KwCALENDAR) THEN "CALENDAR"
        ELSE IF Contains(response, KwANALYSIS) THEN "ANALYSIS"
        ELSE "KNOWLEDGE"

detect_user_intent(completion) ==
    LET response == Upper(Strip(completion))
    IN  IF Contains(response, KwCALENDAR) THEN "CALENDAR"
        ELSE IF Contains(response, KwEMAIL) THEN "EMAIL"
        ELSE IF Contains(response, KwANALYSIS) THEN "ANALYSIS"
        ELSE "KNOWLEDGE"

(***************************************************************************)
(* extract_time_context (lines 571-586).                                   *)
(***************************************************************************)
KwToday == <<"t", "o", "d", "a", "y">>
KwThisMorning == <<"t", "h", "i", "s", " ", "m", "o", "r", "n", "i", "n", "g">>
KwThisAfternoon == <<"t", "h", "i", "s", " ", "a", "f", "t", "e", "r", "n", "o", "o", "n">>
KwTomorrow == <<"t", "o", "m", "o", "r", "r", "o", "w">>
KwNextDay == <<"n", "e", "x", "t", " ", "d", "a", "y">>
KwThisWeek == <<"t", "h", "i", "s", " ", "w", "e", "e", "k">>
KwWeek == <<"w", "e", "e", "k">>
KwNextWeek == <<"n", "e", "x", "t", " ", "w", "e", "e", "k">>
KwMonth == <<"m", "o", "n", "t", "h">>
KwThisMonth == <<"t", "h", "i", "s", " ", "m", "o", "n", "t", "h">>

extract_time_context_next_week_first(message) ==
    LET message_lower == Lower(message)
    IN  IF ContainsAny(message_lower, {KwToday, KwThisMorning, KwThisAfternoon}) THEN 1
        ELSE IF ContainsAny(message_lower, {KwTomorrow, KwNextDay}) THEN 2
        ELSE IF ContainsAny(message_lower, {KwNextWeek}) THEN 14
        ELSE IF ContainsAny(message_lower, {KwThisWeek, KwWeek}) THEN 7
        ELSE IF ContainsAny(message_lower, {KwMonth, KwThisMonth}) THEN 30
        ELSE 7

extract_time_context(message) ==
    LET message_lower == Lower(message)
    IN  IF ContainsAny(message_lower, {KwToday, KwThisMorning, KwThisAfternoon}) THEN 1
        ELSE IF ContainsAny(message_lower, {KwTomorrow, KwNextDay}) THEN 2
        ELSE IF ContainsAny(message_lower, {KwThisWeek, KwWeek}) THEN 7
        ELSE IF ContainsAny(message_lower, {KwNextWeek}) THEN 14
        ELSE IF ContainsAny(message_lower, {KwMonth, KwThisMonth}) THEN 30
        ELSE 7

(***************************************************************************)
(* The two parsers on their own: every completion and every message made   *)
(* of a few fragments, the keywords in either case, whole and in halves.   *)
(***************************************************************************)
ResponseParts ==
    {<<"c", "a", "l", "e", "n", "d", "a", "r">>, <<"E", "m", "a", "i", "l">>, KwANALYSIS, <<"C", "A", "L", "E", "N">>, <<"D", "A", "R">>, <<" ">>}

MessageParts ==
    {KwToday, <<"T", "h", "i", "s", " ", "M", "o", "r", "n", "i", "n", "g">>, KwTomorrow, KwNextDay, KwThisWeek, KwWeek,
     KwNextWeek, <<"M", "o", "n", "t", "h">>, <<" ">>, <<"m", "o", "n">>, <<"N", "E", "X", "T", " ">>}

MsgMeetTomorrow == <<"C", "a", "n", " ", "w", "e", " ", "m", "e", "e", "t", " ", "t", "o", "m", "o", "r", "r", "o", "w", "?">>

MsgNextWeek == <<"a", "n", "y", "t", "h", "i", "n", "g", " ", "n", "e", "x", "t", " ", "w", "e", "e", "k", "?">>

MsgHello == <<"h", "e", "l", "l", "o">>

RECURSIVE Concats(_, _)
Concats(parts, n) ==
    IF n = 0 THEN {<<>>}
    ELSE LET shorter == Concats(parts, n - 1)
         IN  shorter \cup {t \o f : t \in shorter, f \in parts}

Responses == Concats(ResponseParts, MaxResponseParts)

Messages ==
    Concats(MessageParts, MaxMessageParts) \cup {MsgMeetTomorrow, MsgNextWeek, MsgHello}

InitParse ==
    /\ InitAgentEmpty
    /\ \/ \E completion \in Responses :
             call = [op |-> "call_detect_user_intent", completion |-> completion]
       \/ \E message \in Messages :
             call = [op |-> "call_extract_time_context", message |-> message]

DetectUserIntent ==
    /\ call.op = "call_detect_user_intent"
    /\ call' = [op |-> "detect_user_intent", completion |-> call.completion,
                ret |-> detect_user_intent(call.completion)]
    /\ UNCHANGED agent

ExtractTimeContext ==
    /\ call.op = "call_extract_time_context"
    /\ call' = [op |-> "extract_time_context", message |-> call.message,
                ret |-> extract_time_context(call.message)]
    /\ UNCHANGED agent

NextParse == DetectUserIntent \/ ExtractTimeContext

SpecParse == InitParse /\ [][NextParse]_vars

(***************************************************************************)
(* C1: detect_user_intent gives exactly one intent, by ordered substring   *)
(* match on the upper-cased completion: CALENDAR if it contains            *)
(* "CALENDAR", else EMAIL if it contains "EMAIL", else ANALYSIS if it      *)
(* contains "ANALYSIS", else KNOWLEDGE.                                    *)
(***************************************************************************)
C1_IntentByPriority ==
    call.op = "detect_user_intent" =>
        LET up == Upper(call.completion)
            cal == Contains(up, KwCALENDAR)
            mail == Contains(up, KwEMAIL)
            ana == Contains(up, KwANALYSIS)
        IN  /\ call.ret \in Intents
            /\ cal => call.ret = "CALENDAR"
            /\ (~cal /\ mail) => call.ret = "EMAIL"
            /\ (~cal /\ ~mail /\ ana) => call.ret = "ANALYSIS"
            /\ (~cal /\ ~mail /\ ~ana) => call.ret = "KNOWLEDGE"

\* a completion that names EMAIL before CALENDAR, in mixed case, is CALENDAR
C1_Witness ==
    /\ call.op = "detect_user_intent"
    /\ call.completion = <<"E", "m", "a", "i", "l">> \o <<" ">> \o <<"c", "a", "l", "e", "n", "d", "a", "r">>
    /\ call.ret = "CALENDAR"

(***************************************************************************)
(* C3: extract_time_context returns 2 for "Can we meet tomorrow?", 14 for  *)
(* "anything next week?" and 7 for "hello"; a message whose only time      *)
(* phrase is "next week" gives 14.                                         *)
(***************************************************************************)
C3_NextWeekIsFourteen ==
    call.op = "extract_time_context" =>
        LET low == Lower(call.message)
        IN  /\ call.message = MsgMeetTomorrow => call.ret = 2
            /\ call.message = MsgNextWeek => call.ret = 14
            /\ call.message = MsgHello => call.ret = 7
            /\ ( /\ Contains(low, KwNextWeek)
                 /\ ~ContainsAny(low, {KwToday, KwThisMorning, KwThisAfternoon,
                                       KwTomorrow, KwNextDay, KwThisWeek, KwMonth}) )
               => call.ret = 14

(***************************************************************************)
(* C4: extract_time_context returns the window of the first keyword set,   *)
(* in the order 1, 2, 7, 14, 30, that has a keyword in the lower-cased     *)
(* message, and 7 when none has; the result is one of 1, 2, 7, 14, 30.     *)
(***************************************************************************)
TimeWindows ==
    << [words |-> {KwToday, KwThisMorning, KwThisAfternoon}, days |-> 1],
       [words |-> {KwTomorrow, KwNextDay}, days |-> 2],
       [words |-> {KwThisWeek, KwWeek}, days |-> 7],
       [words |-> {KwNextWeek}, days |-> 14],
       [words |-> {KwMonth, KwThisMonth}, days |-> 30] >>

C4_FirstMatchingWindow ==
    call.op = "extract_time_context" =>
        LET low == Lower(call.message)
            hits == {i \in 1..Len(TimeWindows) : ContainsAny(low, TimeWindows[i].words)}
        IN  /\ call.ret \in {1, 2, 7, 14, 30}
            /\ call.ret = IF hits = {} THEN 7 ELSE TimeWindows[Min(hits)].days

\* a message with "next week": the first set with a keyword in it is
\* {this week, week}
C4_Witness ==
    /\ call.op = "extract_time_context"
    /\ Contains(Lower(call.message), KwNextWeek)
    /\ Contains(Lower(call.message), KwMonth)
    /\ call.ret = 7

(***************************************************************************)
(* The documents ingested.  A row's content is kept as a handle            *)
(* <<document, k>> on the k-th chunk of the document, Text gives its text. *)
(***************************************************************************)
ChunkSize == 1200

ChunkOverlap == 150

Repeat(c, n) == [i \in 1..n |-> c]

DocText ==
    [blank |-> <<" ", "\n">>,
     short |-> <<"a", " ", "b", ".", " ", "c", "d">>,
     long  |-> Repeat("x", 599) \o <<".", " ">> \o Repeat("y", 601)]

DocNames == DOMAIN DocText

DocChunks == [d \in DocNames |-> chunk_text(DocText[d], ChunkSize, ChunkOverlap)]

Text(content) == DocChunks[content[1]][content[2]]

Titles == {"t1", "t2"}

Queries == {<<"a", " ", "b">>, <<"x">>}

(***************************************************************************)
(* The embedding port and the index.  A vector is a direction dir (the     *)
(* angle dir * 60 degrees) and a length len; the inner product of two      *)
(* vectors is len * len * cos of the angle between them, in tenths.        *)
(***************************************************************************)
Cos10 == <<10, 5, -5, -10, -5, 5>>

\* self.embedding_model.encode: the same vector for the same text
encode(text) ==
    [dir |-> Len(text) % Len(Cos10),
     len |-> IF text # <<>> /\ text[1] \in {"a", "y"} THEN 2 ELSE 1]

\* faiss.normalize_L2 on a row: unit length, the zero vector stays zero
normalize_L2(v) == [v EXCEPT !.len = IF v.len = 0 THEN 0 ELSE 1]

InnerProduct(u, v) == u.len * v.len * Cos10[((u.dir - v.dir) % Len(Cos10)) + 1]

\* the score IndexFlatIP.search gives the positions it has no hit for
PadScore == -1000

\* float('-inf') as a min_score
NegInf == PadScore - 1

PadHit == [score |-> PadScore, idx |-> -1]

RECURSIVE TopHits(_, _, _, _)
TopHits(index, q, remaining, k) ==
    IF k = 0 THEN <<>>
    ELSE IF remaining = {} THEN <<PadHit>> \o TopHits(index, q, remaining, k - 1)
    ELSE LET sc(i) == InnerProduct(index[i], q)
             best == CHOOSE i \in remaining : \A j \in remaining :
                         sc(i) > sc(j) \/ (sc(i) = sc(j) /\ i <= j)
         IN  <<[score |-> sc(best), idx |-> best - 1]>>
             \o TopHits(index, q, remaining \ {best}, k - 1)

\* self.vector_index.search(q, top_k): top_k hits by descending inner product,
\* positions counted from 0, padded with PadHit
IndexSearch(index, q, top_k) ==
    TopHits(index.vectors, q, 1..Len(index.vectors), top_k)

(***************************************************************************)
(* build_vector_index (lines 128-151).  failAt = i > 0: encode raises on   *)
(* the i-th row, after that row was appended to document_chunks.           *)
(***************************************************************************)
BuildVectorIndexOnce(rows, old_index, failAt) ==
    LET pair(i) == <<rows[i].id, rows[i].content>>
    IN  [document_chunks |-> [i \in 1..Len(rows) |-> pair(i)],
         vector_index |->
             IF old_index.built THEN old_index
             ELSE IF rows # <<>>
             THEN IndexFlatIP([i \in 1..Len(rows) |->
                                  normalize_L2(encode(Text(rows[i].content)))])
             ELSE old_index,
         raised |-> FALSE]

BuildVectorIndex(rows, old_index, failAt) ==
    LET pair(i) == <<rows[i].id, rows[i].content>>
    IN  IF failAt \in 1..Len(rows)
        THEN [document_chunks |-> [i \in 1..failAt |-> pair(i)],
              vector_index |-> old_index,
              raised |-> TRUE]
        ELSE [document_chunks |-> [i \in 1..Len(rows) |-> pair(i)],
              vector_index |->
                  IF rows # <<>>
                  THEN IndexFlatIP([i \in 1..Len(rows) |->
                                       normalize_L2(encode(Text(rows[i].content)))])
                  ELSE old_index,
              raised |-> FALSE]

\* the rows add_document inserts (lines 91-95): ids go on from the last one,
\* chunk_id counts the document's chunks from 0
NewRows(rows, title, doc, source) ==
    [k \in 1..Len(DocChunks[doc]) |->
        [id |-> Len(rows) + k, title |-> title, content |-> <<doc, k>>,
         source |-> source, chunk_id |-> k - 1]]

(***************************************************************************)
(* search_knowledge_base (lines 160-209).                                  *)
(***************************************************************************)
\* seq[idx] for a Python index, negative ones counting from the end
PyItem(seq, idx) == IF idx >= 0 THEN seq[idx + 1] ELSE seq[Len(seq) + idx + 1]

\* SELECT title, source, metadata FROM documents WHERE id = ?
FetchMetadata(rows, doc_id) == {r \in {rows[i] : i \in 1..Len(rows)} : r.id = doc_id}

HitPassesAtOrAbove(hit, chunks, min_score) ==
    hit.idx < Len(chunks) /\ hit.score >= min_score

\* idx < len(self.document_chunks) and score > min_score
HitPasses(hit, chunks, min_score) ==
    hit.idx < Len(chunks) /\ hit.score > min_score

RECURSIVE CollectResults(_, _, _, _)
CollectResults(hits, chunks, rows, min_score) ==
    IF hits = <<>> THEN <<>>
    ELSE LET hit == Head(hits)
             rest == CollectResults(Tail(hits), chunks, rows, min_score)
         IN  IF HitPasses(hit, chunks, min_score)
             THEN LET pair == PyItem(chunks, hit.idx)
                      metadata == FetchMetadata(rows, pair[1])
                  IN  IF metadata # {}
                      THEN LET m == CHOOSE r \in metadata : TRUE
                           IN  <<[content |-> pair[2], title |-> m.title,
                                  source |-> m.source,
                                  relevance_score |-> hit.score]>> \o rest
                      ELSE rest
             ELSE rest

\* the query vector handed to the index: normalize_L2 is applied to a copy
\* (astype), the vector searched with is the one encode returned
QueryVector(query) == encode(query)

KeepLastEleven(log) == IF Len(log) > 11 THEN SubSeq(log, Len(log) - 10, Len(log)) ELSE log

\* self.recent_knowledge_searches[-10:]
KeepLastTen(log) == IF Len(log) > 10 THEN SubSeq(log, Len(log) - 9, Len(log)) ELSE log

Reverse(seq) == [i \in 1..Len(seq) |-> seq[Len(seq) + 1 - i]]

SearchResultsOfReversed(rows, chunks, index, query, top_k, min_score) ==
    Reverse(CollectResults(IndexSearch(index, QueryVector(query), top_k),
                           chunks, rows, min_score))

\* the results list of a search on an index that is there (lines 165-189)
SearchResultsOf(rows, chunks, index, query, top_k, min_score) ==
    CollectResults(IndexSearch(index, QueryVector(query), top_k), chunks, rows, min_score)

IndexIsEmptyChunksOnly(index, chunks) == Len(chunks) = 0

\* self.vector_index is None or len(self.document_chunks) == 0
IndexIsEmpty(index, chunks) == index = NoIndex \/ Len(chunks) = 0

(***************************************************************************)
(* The agent.  Init is the agent constructed on a fresh store.             *)
(***************************************************************************)
Init ==
    /\ db = <<>>
    /\ document_chunks = BuildVectorIndex(<<>>, NoIndex, 0).document_chunks
    /\ vector_index = BuildVectorIndex(<<>>, NoIndex, 0).vector_index
    /\ recent_knowledge_searches = <<>>
    /\ services = NoServices
    /\ rebuild = NoRebuild
    /\ call = Idle

\* add_document(title, content, source): the rows are committed, then the
\* index is rebuilt; when encode raises the exception leaves add_document
AddDocument(docs, titles, maxRows) ==
    \E doc \in docs, title \in titles :
        LET rows == db \o NewRows(db, title, doc, "manual")
        IN  /\ Len(rows) <= maxRows
            /\ \E failAt \in 0..Len(rows) :
                  LET built == BuildVectorIndex(rows, vector_index, failAt)
                  IN  /\ db' = rows
                      /\ document_chunks' = built.document_chunks
                      /\ vector_index' = built.vector_index
                      /\ call' = [op |-> "add_document", title |-> title, doc |-> doc,
                                  chunks |-> Len(DocChunks[doc]),
                                  ret |-> IF built.raised THEN "raised" ELSE "ok"]
            /\ UNCHANGED <<recent_knowledge_searches, services, rebuild>>

\* a search that pops the chunk it returns first
SearchKnowledgeBaseConsuming(queries, topks, minscores) ==
    \E query \in queries, top_k \in topks, min_score \in minscores :
        LET args == [op |-> "search_knowledge_base", query |-> query,
                     top_k |-> top_k, min_score |-> min_score,
                     logged |-> Len(recent_knowledge_searches)]
        IN  IF IndexIsEmpty(vector_index, document_chunks)
            THEN /\ call' = args @@ [ret |-> "empty", results |-> <<>>]
                 /\ UNCHANGED agent
            ELSE LET results == SearchResultsOf(db, document_chunks, vector_index,
                                                query, top_k, min_score)
                 IN  /\ call' = args @@ [ret |-> IF results # <<>> THEN "found" ELSE "none",
                                         results |-> results]
                     /\ recent_knowledge_searches' =
                            IF results # <<>>
                            THEN KeepLastTen(Append(recent_knowledge_searches,
                                                    [query |-> query, results |-> results]))
                            ELSE recent_knowledge_searches
                     /\ document_chunks' =
                            IF results # <<>> THEN Tail(document_chunks) ELSE document_chunks
                     /\ UNCHANGED <<db, vector_index, services, rebuild>>

\* search_knowledge_base(query, top_k, min_score) returning normally
SearchKnowledgeBase(queries, topks, minscores) ==
    \E query \in queries, top_k \in topks, min_score \in minscores :
        LET args == [op |-> "search_knowledge_base", query |-> query,
                     top_k |-> top_k, min_score |-> min_score,
                     logged |-> Len(recent_knowledge_searches)]
        IN  IF IndexIsEmpty(vector_index, document_chunks)
            THEN /\ call' = args @@ [ret |-> "empty", results |-> <<>>]
                 /\ UNCHANGED agent
            ELSE LET results == SearchResultsOf(db, document_chunks, vector_index,
                                                query, top_k, min_score)
                 IN  /\ call' = args @@ [ret |-> IF results # <<>> THEN "found" ELSE "none",
                                         results |-> results]
                     /\ recent_knowledge_searches' =
                            IF results # <<>>
                            THEN KeepLastTen(Append(recent_knowledge_searches,
                                                    [query |-> query, results |-> results]))
                            ELSE recent_knowledge_searches
                     /\ UNCHANGED <<db, document_chunks, vector_index, services, rebuild>>

\* search_knowledge_base when encode raises on the query: nothing has changed
SearchRaises(queries) ==
    \E query \in queries :
        /\ ~IndexIsEmpty(vector_index, document_chunks)
        /\ call' = [op |-> "search_knowledge_base", query |-> query, ret |-> "raised"]
        /\ UNCHANGED agent

TopKs == 1..MaxTopK

MinScores == {NegInf, 2, 5}

\* Spec follows the agent through its ingests and searches up to the first
\* search that is logged; SpecLog follows the log.
NothingLogged == recent_knowledge_searches = <<>>

Ingest == NothingLogged /\ AddDocument(DocNames, Titles, MaxRows)

Search == NothingLogged /\ SearchKnowledgeBase(Queries, TopKs, MinScores)

SearchFails == NothingLogged /\ SearchRaises(Queries)

Next == Ingest \/ Search \/ SearchFails

Spec == Init /\ [][Next]_vars

(***************************************************************************)
(* The recent-searches log: one document, one query, searches without end. *)
(***************************************************************************)
LogQuery == <<"x">>

LogIngest == AddDocument({"short"}, {"t1"}, MaxLogRows)

LogSearch == SearchKnowledgeBase({LogQuery}, 1..2, {2, 20})

NextLog == LogIngest \/ LogSearch

SpecLog == Init /\ [][NextLog]_vars

\* a search that returned: its call record carries the results list
Searched == call.op = "search_knowledge_base" /\ call.ret # "raised"

\* the hits the index gives the last search (a search leaves the index as it was)
LastHits == IndexSearch(vector_index, QueryVector(call.query), call.top_k)

IndexSize == Len(vector_index.vectors)

\* the index and the chunk list are those of a build over the store as it is
FreshIndex ==
    /\ vector_index.built
    /\ IndexSize = Len(db)
    /\ Len(document_chunks) = Len(db)

(***************************************************************************)
(* C2: for every query, top_k and min_score, no result of                  *)
(* search_knowledge_base has relevance_score <= min_score.                 *)
(***************************************************************************)
C2_AboveMinScore ==
    Searched =>
        \A i \in 1..Len(call.results) : call.results[i].relevance_score > call.min_score

\* a search that returned a result and left out a hit scoring exactly min_score
C2_Witness ==
    /\ Searched
    /\ call.ret = "found"
    /\ \E i \in 1..Len(LastHits) :
          LastHits[i].idx >= 0 /\ LastHits[i].score = call.min_score

(***************************************************************************)
(* C5: a search on an agent whose index is None or whose chunk list is     *)
(* empty does not raise and returns the empty-knowledge-base signal; the   *)
(* signal of a search that found nothing above min_score is another one;   *)
(* the empty signal is returned in no state where the index holds a chunk. *)
(***************************************************************************)
C5_EmptySignal ==
    call.op = "search_knowledge_base" =>
        /\ (vector_index = NoIndex \/ document_chunks = <<>>) => call.ret = "empty"
        /\ call.ret = "empty" => (call.results = <<>> /\ IndexSize = 0)
        /\ call.ret = "none" => (call.results = <<>> /\ IndexSize >= 1)
        /\ IndexSize >= 1 => call.ret # "empty"

\* the empty signal from an agent whose store has rows (the rebuild raised), and
\* nothing logged
C5_Witness ==
    /\ call.op = "search_knowledge_base"
    /\ call.ret = "empty"
    /\ db # <<>>
    /\ recent_knowledge_searches = <<>>

(***************************************************************************)
(* C6: the recent-searches log never holds more than 10 entries; a search  *)
(* that returns at least one result appends exactly its own entry at the   *)
(* end, the oldest entry going first once there are more than 10; a search *)
(* that returns the empty signal or no result leaves the log as it was.    *)
(***************************************************************************)
LogAfter(log, entry) ==
    IF Len(log) < 10 THEN Append(log, entry) ELSE Tail(log) \o <<entry>>

C6_LogBounded ==
    /\ [](Len(recent_knowledge_searches) <= 10)
    /\ [][call'.op = "search_knowledge_base" =>
            IF call'.ret = "found"
            THEN recent_knowledge_searches' =
                     LogAfter(recent_knowledge_searches,
                              [query |-> call'.query, results |-> call'.results])
            ELSE recent_knowledge_searches' = recent_knowledge_searches]_vars

\* a search with results on a log that was full: the oldest entry has gone
C6_Witness ==
    /\ Searched
    /\ call.ret = "found"
    /\ call.logged = 10
    /\ Len(recent_knowledge_searches) = 10
    /\ recent_knowledge_searches[10].results = call.results
    /\ recent_knowledge_searches[1] # recent_knowledge_searches[10]

(***************************************************************************)
(* C7 as stated: after an add_document that returns normally the index has *)
(* one entry per row of the store, in ascending id order, and an ingest    *)
(* that persists n chunks has grown the index by exactly n.                *)
(***************************************************************************)
C7_GrowsByExactlyN ==
    [][(call'.op = "add_document" /\ call'.ret = "ok") =>
           Len(vector_index'.vectors) = IndexSize + call'.chunks]_vars

(***************************************************************************)
(* C7 as amended: after an add_document that returns normally the index    *)
(* has one entry per row of the store, in ascending id order, position i   *)
(* being the i-th row; the index has grown by the n chunks persisted when  *)
(* it had an entry for every row before the call, and by n plus the rows   *)
(* that earlier calls persisted without indexing otherwise.                *)
(***************************************************************************)
IndexMatchesStore ==
    /\ IndexSize = Len(db)
    /\ Len(document_chunks) = Len(db)
    /\ \A i \in 1..Len(db) :
          /\ document_chunks[i] = <<db[i].id, db[i].content>>
          /\ vector_index.vectors[i] = normalize_L2(encode(Text(db[i].content)))
    /\ \A i, j \in 1..Len(db) : i < j => db[i].id < db[j].id

C7_IndexMatchesStore ==
    /\ []((call.op = "add_document" /\ call.ret = "ok") => IndexMatchesStore)
    /\ [][(call'.op = "add_document" /\ call'.ret = "ok") =>
             /\ Len(vector_index'.vectors) = Len(db) + call'.chunks
             /\ IndexSize = Len(db) =>
                    Len(vector_index'.vectors) = IndexSize + call'.chunks]_vars

\* an ingest of two chunks into a store of one indexed row
C7_Witness ==
    /\ call.op = "add_document"
    /\ call.ret = "ok"
    /\ call.chunks = 2
    /\ Len(db) = 3
    /\ IndexMatchesStore

(***************************************************************************)
(* C8 as stated: a search on a freshly built index over N chunks returns   *)
(* at most min(top_k, N) results, strictly descending by score.  Stated    *)
(* for the searches whose min_score is not below the score of the index's  *)
(* padding, where the count holds and the order alone decides.             *)
(***************************************************************************)
C8_StrictlyDescending ==
    (Searched /\ FreshIndex /\ call.min_score >= PadScore) =>
        /\ Len(call.results) <= call.top_k
        /\ Len(call.results) <= IndexSize
        /\ \A i \in 1..(Len(call.results) - 1) :
              call.results[i].relevance_score > call.results[i + 1].relevance_score

(***************************************************************************)
(* C8 as amended: a search on a freshly built index over N chunks returns  *)
(* at most top_k results, and at most min(top_k, N) unless min_score is    *)
(* below the score the index gives the positions it pads with; no result   *)
(* scores higher than the one before it (equal scores do occur).           *)
(***************************************************************************)
C8_DescendingAtMostK ==
    (Searched /\ FreshIndex) =>
        /\ Len(call.results) <= call.top_k
        /\ call.min_score >= PadScore => Len(call.results) <= IndexSize
        /\ \A i \in 1..(Len(call.results) - 1) :
              call.results[i].relevance_score >= call.results[i + 1].relevance_score

\* a search on a fresh index of three chunks that returned two results, the
\* second with a lower score than the first
C8_Witness ==
    /\ Searched
    /\ FreshIndex
    /\ IndexSize = 3
    /\ Len(call.results) = 2
    /\ call.results[1].relevance_score > call.results[2].relevance_score

(***************************************************************************)
(* The same search issued again: the agent of Spec, and after any search   *)
(* that returned, the same query with the same top_k and min_score.        *)
(***************************************************************************)
MaxRepeats == 2        \* times a logged search is issued again

SearchAgain ==
    /\ Searched
    /\ Len(recent_knowledge_searches) <= MaxRepeats
    /\ SearchKnowledgeBase({call.query}, {call.top_k}, {call.min_score})

NextRepeat == Ingest \/ Search \/ SearchFails \/ SearchAgain

SpecRepeat == Init /\ [][NextRepeat]_vars

(***************************************************************************)
(* C11: a search issued directly after a search with the same query, top_k *)
(* and min_score returns the same results in the same order; a search      *)
(* leaves the document store, the index and the chunk list as they were.   *)
(***************************************************************************)
C11_RepeatIsIdentical ==
    [][call'.op = "search_knowledge_base" =>
          /\ UNCHANGED <<db, document_chunks, vector_index>>
          /\ ( /\ Searched
               /\ call'.ret # "raised"
               /\ call'.query = call.query
               /\ call'.top_k = call.top_k
               /\ call'.min_score = call.min_score )
             => (call'.ret = call.ret /\ call'.results = call.results)]_vars

\* a search that returned two results, issued a second time: the log has its
\* entry twice
C11_Witness ==
    /\ Searched
    /\ call.ret = "found"
    /\ call.logged = 1
    /\ Len(call.results) = 2
    /\ Len(recent_knowledge_searches) = 2
    /\ recent_knowledge_searches[1] = recent_knowledge_searches[2]
    /\ recent_knowledge_searches[2].results = call.results

(***************************************************************************)
(* More of Python's str: split('\n'), startswith, replace(pat, ''),        *)
(* '\n'.join.  An optional text (None or a str) is <<>> or <<text>>.       *)
(***************************************************************************)
None == <<>>

Some(text) == <<text>>

\* bool(x) of an optional text: False for None and for ''
Truthy(opt) == opt # None /\ opt[1] # <<>>

RECURSIVE SplitLines(_)
SplitLines(text) ==
    IF \A i \in 1..Len(text) : text[i] # "\n" THEN <<text>>
    ELSE LET i == CHOOSE j \in 1..Len(text) :
                      text[j] = "\n" /\ \A k \in 1..(j - 1) : text[k] # "\n"
         IN  <<SubSeq(text, 1, i - 1)>> \o SplitLines(SubSeq(text, i + 1, Len(text)))

StartsWith(line, pat) == Len(line) >= Len(pat) /\ SubSeq(line, 1, Len(pat)) = pat

RECURSIVE Remove(_, _)
Remove(line, pat) ==
    IF line = <<>> THEN <<>>
    ELSE IF StartsWith(line, pat) THEN Remove(SubSeq(line, Len(pat) + 1, Len(line)), pat)
    ELSE <<Head(line)>> \o Remove(Tail(line), pat)

RECURSIVE JoinLines(_)
JoinLines(lines) ==
    IF lines = <<>> THEN <<>>
    ELSE IF Len(lines) = 1 THEN lines[1]
    ELSE lines[1] \o <<"\n">> \o JoinLines(Tail(lines))

(***************************************************************************)
(* call_claude (lines 263-278): the text of the completion, or the apology *)
(* with the error's text when the completion port raises.                  *)
(***************************************************************************)
ApologyText == <<"I", " ", "a", "p", "o", "l", "o", "g", "i", "z", "e", ",", " ", "b", "u", "t", " ", "I", " ", "e", "n", "c", "o", "u", "n", "t", "e", "r", "e", "d", " ", "a", "n", " ", "e", "r", "r", "o", "r", " ", "p", "r", "o", "c", "e", "s", "s", "i", "n", "g", " ", "y", "o", "u", "r", " ", "r", "e", "q", "u", "e", "s", "t", ":", " ">>

Completed(text) == [raised |-> FALSE, text |-> text]

Failed(error) == [raised |-> TRUE, text |-> error]

call_claude(reply) == IF reply.raised THEN ApologyText \o reply.text ELSE reply.text

(***************************************************************************)
(* handle_email_request (lines 418-488) with send_email and                *)
(* create_email_draft.  ports lists the port calls made, in order.         *)
(***************************************************************************)
KwTO == <<"T", "O", ":">>

KwSUBJECT == <<"S", "U", "B", "J", "E", "C", "T", ":">>

KwBODY == <<"B", "O", "D", "Y", ":">>

KwMISSING == <<"M", "I", "S", "S", "I", "N", "G">>

KwDraft == <<"d", "r", "a", "f", "t">>
KwDrafts == <<"d", "r", "a", "f", "t", "s">>
KwSaveDraft == <<"s", "a", "v", "e", " ", "d", "r", "a", "f", "t">>
KwCreateDraft == <<"c", "r", "e", "a", "t", "e", " ", "d", "r", "a", "f", "t">>

\* the outcomes of a call on the mail port: it returns, raises HttpError, or
\* raises another exception
PortOutcomes == {"ok", "HttpError", "Exception"}

\* one iteration of the loop over the lines of the composed email (lines 461-469)
ParseEmailLine(st, line) ==
    IF StartsWith(line, KwTO)
    THEN [st EXCEPT !.to_email = Some(Strip(Remove(line, KwTO)))]
    ELSE IF StartsWith(line, KwSUBJECT)
    THEN [st EXCEPT !.subject = Some(Strip(Remove(line, KwSUBJECT)))]
    ELSE IF StartsWith(line, KwBODY)
    THEN [st EXCEPT !.body_started = TRUE]
    ELSE IF st.body_started
    THEN [st EXCEPT !.body_lines = Append(st.body_lines, line)]
    ELSE st

RECURSIVE ParseEmailLines(_, _)
ParseEmailLines(st, lines) ==
    IF lines = <<>> THEN st
    ELSE ParseEmailLines(ParseEmailLine(st, Head(lines)), Tail(lines))

\* lines 455-471
ParseEmail(email_draft) ==
    LET st == ParseEmailLines([to_email |-> None, subject |-> None,
                               body_lines |-> <<>>, body_started |-> FALSE],
                              SplitLines(email_draft))
    IN  [to_email |-> st.to_email, subject |-> st.subject,
         body |-> Strip(JoinLines(st.body_lines))]

IsDraftRequestCaseSensitive(user_message) ==
    ContainsAny(user_message, {KwDraft, KwDrafts, KwSaveDraft, KwCreateDraft})

\* any(word in user_message.lower() for word in ['draft', ...]) (line 426)
IsDraftRequest(user_message) ==
    ContainsAny(Lower(user_message), {KwDraft, KwDrafts, KwSaveDraft, KwCreateDraft})

RecipientMissingNoneOnly(to_email) == to_email = None

\* not to_email or "MISSING" in to_email.upper() (lines 476, 481)
RecipientMissing(to_email) ==
    ~Truthy(to_email) \/ Contains(Upper(to_email[1]), KwMISSING)

\* send_email (lines 543-569), the mail service being there
send_email(to_email, subject, body, outcome) ==
    [ret |-> IF outcome = "ok" THEN "sent"
             ELSE IF outcome = "HttpError" THEN "failed_to_send" ELSE "error_sending",
     ports |-> <<[port |-> "send", to |-> to_email, subject |-> subject, body |-> body]>>]

\* create_email_draft (lines 513-541), the mail service being there
create_email_draft(to_email, subject, body, outcome) ==
    [ret |-> IF outcome = "ok" THEN "draft_created"
             ELSE IF outcome = "HttpError" THEN "failed_to_create_draft"
             ELSE "error_creating_draft",
     ports |-> <<[port |-> "create_draft", to |-> to_email, subject |-> subject,
                  body |-> body]>>]

handle_email_request(user_message, gmail_service, reply, outcome) ==
    IF ~gmail_service
    THEN [ret |-> "gmail_unavailable", ports |-> <<>>]
    ELSE LET is_draft_request == IsDraftRequest(user_message)
             email_draft == call_claude(reply)
             completion == <<[port |-> "complete"]>>
             parsed == ParseEmail(email_draft)
         IN  IF is_draft_request
             THEN LET draft_to == IF ~RecipientMissing(parsed.to_email)
                                  THEN parsed.to_email[1] ELSE <<>>
                      result == create_email_draft(draft_to, parsed.subject,
                                                   parsed.body, outcome)
                  IN  [ret |-> result.ret, ports |-> completion \o result.ports]
             ELSE IF RecipientMissing(parsed.to_email)
             THEN [ret |-> "need_recipient", ports |-> completion,
                   subject |-> parsed.subject, body |-> parsed.body]
             ELSE LET result == send_email(parsed.to_email[1], parsed.subject,
                                           parsed.body, outcome)
                  IN  [ret |-> result.ret, ports |-> completion \o result.ports]

(***************************************************************************)
(* The email handler on its own: every user message of a few, every        *)
(* composed email of up to MaxEmailParts fragments, with and without the   *)
(* mail service, the completion port and the mail port failing or not.     *)
(***************************************************************************)
MaxEmailParts == 3     \* fragments in a composed email handed to handle_email_request

EmailParts ==
    {<<"T", "O", ":", " ", "a", "@", "b">>,
     <<"T", "O", ":", " ", "M", "I", "S", "S", "I", "N", "G", " ", "-", " ", "a", "s", "k">>,
     <<"T", "O", ":", " ">>,
     <<" ", "T", "O", ":", " ", "a", "@", "b">>,
     <<"S", "U", "B", "J", "E", "C", "T", ":", " ", "s">>,
     <<"B", "O", "D", "Y", ":">>,
     <<"h", "i">>,
     <<"B", "O", "D", "Y", ":", "\n", "h", "i">>}

RECURSIVE EmailTexts(_)
EmailTexts(n) ==
    IF n = 1 THEN EmailParts
    ELSE LET shorter == EmailTexts(n - 1)
         IN  shorter \cup {t \o <<"\n">> \o l : t \in shorter, l \in EmailParts}

EmailReplies ==
    {Completed(t) : t \in EmailTexts(MaxEmailParts)} \cup {Failed(<<"t", "i", "m", "e", "o", "u", "t">>)}

EmailMessages ==
    {<<"s", "e", "n", "d", " ", "i", "t">>,
     <<"D", "r", "a", "f", "t", " ", "i", "t">>,
     <<"m", "a", "i", "l", " ", "b", "o">>}

\* the services setup_google_services can leave: the calendar service is built
\* first, so the mail service is never there without it
ServiceSets ==
    {s \in [calendar_service : BOOLEAN, gmail_service : BOOLEAN] :
        s.gmail_service => s.calendar_service}

InitEmail ==
    /\ db = <<>>
    /\ document_chunks = <<>>
    /\ vector_index = NoIndex
    /\ recent_knowledge_searches = <<>>
    /\ services \in ServiceSets
    /\ rebuild = NoRebuild
    /\ \E user_message \in EmailMessages, reply \in EmailReplies :
           call = [op |-> "call_handle_email_request", user_message |-> user_message,
                   reply |-> reply]

HandleEmailRequest ==
    /\ call.op = "call_handle_email_request"
    /\ \E outcome \in PortOutcomes :
           call' = [op |-> "handle_email_request", user_message |-> call.user_message,
                    email_draft |-> call_claude(call.reply),
                    result |-> handle_email_request(call.user_message,
                                                    services.gmail_service,
                                                    call.reply, outcome)]
    /\ UNCHANGED agent

NextEmail == HandleEmailRequest

SpecEmail == InitEmail /\ [][NextEmail]_vars

\* the handler got past its service check and had an email composed
Composed == call.op = "handle_email_request" /\ call.result.ports # <<>>

PortCalls(ports, port) == {i \in 1..Len(ports) : ports[i].port = port}

Max(S) == CHOOSE m \in S : \A n \in S : m >= n

\* the lines of a composed email that start with a tag, counted from 1
TagLines(email_draft, tag) ==
    {i \in 1..Len(SplitLines(email_draft)) : StartsWith(SplitLines(email_draft)[i], tag)}

\* the value of the last line with the tag: what follows the tag, trimmed
TagValue(email_draft, tag) ==
    LET line == SplitLines(email_draft)[Max(TagLines(email_draft, tag))]
    IN  Strip(SubSeq(line, Len(tag) + 1, Len(line)))

\* the composed email has no TO line, or its TO value contains "MISSING"
NoRecipient(email_draft) ==
    \/ TagLines(email_draft, KwTO) = {}
    \/ Contains(TagValue(email_draft, KwTO), KwMISSING)

\* the caller is asked for the recipient and handed the composed subject
AskedForRecipient ==
    /\ call.result.ret = "need_recipient"
    /\ call.result.ports = <<[port |-> "complete"]>>
    /\ call.result.subject =
           IF TagLines(call.email_draft, KwSUBJECT) = {} THEN None
           ELSE Some(TagValue(call.email_draft, KwSUBJECT))
    /\ call.result.body = ParseEmail(call.email_draft).body

(***************************************************************************)
(* C12 as stated: when the composed email has no TO line or its TO value   *)
(* contains "MISSING", handle_email_request makes no send call and the     *)
(* caller receives a request for the recipient, with the composed subject  *)
(* and body.                                                               *)
(***************************************************************************)
C12_AsksForRecipient ==
    (Composed /\ NoRecipient(call.email_draft)) =>
        /\ PortCalls(call.result.ports, "send") = {}
        /\ AskedForRecipient

(***************************************************************************)
(* C12 as amended: a send call is made only with the non-empty TO value of *)
(* the composed email, which does not contain "MISSING" in any case; when  *)
(* the email has no TO line, an empty TO value or one containing           *)
(* "MISSING", no send call is made, and the caller of a request that is    *)
(* not a draft request is asked for the recipient and handed the composed  *)
(* subject and body, while a draft request has the draft created with no   *)
(* recipient and gets the outcome of that.                                 *)
(***************************************************************************)
C12_SendNeedsRecipient ==
    Composed =>
        LET ports == call.result.ports
            noTo == TagLines(call.email_draft, KwTO) = {}
            unknown == \/ noTo
                       \/ TagValue(call.email_draft, KwTO) = <<>>
                       \/ Contains(Upper(TagValue(call.email_draft, KwTO)), KwMISSING)
        IN  /\ \A i \in PortCalls(ports, "send") :
                   /\ ~unknown
                   /\ ports[i].to = TagValue(call.email_draft, KwTO)
            /\ unknown =>
                   /\ PortCalls(ports, "send") = {}
                   /\ IF IsDraftRequest(call.user_message)
                      THEN /\ call.result.ret \in {"draft_created", "failed_to_create_draft",
                                                   "error_creating_draft"}
                           /\ \E i \in PortCalls(ports, "create_draft") : ports[i].to = <<>>
                      ELSE AskedForRecipient

\* a request to send, the composed email with "MISSING" for its recipient, a
\* subject and a body: the caller is asked for the recipient
C12_Witness ==
    /\ Composed
    /\ ~IsDraftRequest(call.user_message)
    /\ TagLines(call.email_draft, KwTO) # {}
    /\ Contains(TagValue(call.email_draft, KwTO), KwMISSING)
    /\ call.result.ret = "need_recipient"
    /\ call.result.subject = Some(<<"s">>)
    /\ call.result.body = <<"h", "i">>

(***************************************************************************)
(* chat (lines 336-353) and the four handlers.  A handler's run is the     *)
(* port calls it makes in order, what it returns, whether an exception     *)
(* leaves it, and the recent-searches log it leaves behind.                *)
(***************************************************************************)
DefaultMinScore == 2

KnowledgeTopK == 12

AnalysisTopK == 15

\* search_knowledge_base(query, top_k, min_score) as a handler calls it;
\* embed_fails: the embedding port raises on the query
search_knowledge_base(query, top_k, min_score, embed_fails) ==
    IF IndexIsEmpty(vector_index, document_chunks)
    THEN [raised |-> FALSE, ret |-> "empty", log |-> recent_knowledge_searches]
    ELSE IF embed_fails
    THEN [raised |-> TRUE, ret |-> "raised", log |-> recent_knowledge_searches]
    ELSE LET results == SearchResultsOf(db, document_chunks, vector_index,
                                        query, top_k, min_score)
         IN  [raised |-> FALSE,
              ret |-> IF results # <<>> THEN "found" ELSE "none",
              log |-> IF results # <<>>
                      THEN KeepLastTen(Append(recent_knowledge_searches,
                                              [query |-> query, results |-> results]))
                      ELSE recent_knowledge_searches]

\* what a handler returns from its closing call_claude: the completion, or
\* call_claude's apology
Answer(reply) == IF reply.raised THEN "apology_from_call_claude" ELSE "answer"

\* handle_knowledge_query and handle_analysis_request, which differ in top_k
QueryHandler(user_message, top_k, reply, embed_fails) ==
    LET search == search_knowledge_base(user_message, top_k, DefaultMinScore, embed_fails)
        retrieval == <<[port |-> "retrieval", query |-> user_message, top_k |-> top_k]>>
    IN  IF search.raised
        THEN [raised |-> TRUE, ret |-> "raised", ports |-> retrieval, log |-> search.log]
        ELSE [raised |-> FALSE, ret |-> Answer(reply),
              ports |-> retrieval \o <<[port |-> "complete"]>>, log |-> search.log]

handle_knowledge_query(user_message, reply, embed_fails) ==
    QueryHandler(user_message, KnowledgeTopK, reply, embed_fails)

handle_analysis_request(user_message, reply, embed_fails) ==
    QueryHandler(user_message, AnalysisTopK, reply, embed_fails)

\* the calendar port lists events, lists none, or raises (get_calendar_events
\* turns that into no events)
CalendarOutcomes == {"events", "no_events", "raised"}

handle_calendar_query(user_message, calendar_service, reply, listing) ==
    IF ~calendar_service
    THEN [raised |-> FALSE, ret |-> "calendar_unavailable", ports |-> <<>>,
          log |-> recent_knowledge_searches]
    ELSE LET days_ahead == extract_time_context(user_message)
             list == <<[port |-> "list_events", days_ahead |-> days_ahead]>>
         IN  IF listing # "events"
             THEN [raised |-> FALSE, ret |-> "no_upcoming_events", ports |-> list,
                   log |-> recent_knowledge_searches]
             ELSE [raised |-> FALSE, ret |-> Answer(reply),
                   ports |-> list \o <<[port |-> "complete"]>>,
                   log |-> recent_knowledge_searches]

HandlerForKnowledgeOnly(intent) == "handle_knowledge_query"

\* the if/elif chain of lines 343-350
HandlerFor(intent) ==
    IF intent = "CALENDAR" THEN "handle_calendar_query"
    ELSE IF intent = "EMAIL" THEN "handle_email_request"
    ELSE IF intent = "ANALYSIS" THEN "handle_analysis_request"
    ELSE "handle_knowledge_query"

\* the run of the handler of that name
RunHandler(handler, user_message, reply, embed_fails, listing, outcome) ==
    IF handler = "handle_calendar_query"
    THEN handle_calendar_query(user_message, services.calendar_service, reply, listing)
    ELSE IF handler = "handle_email_request"
    THEN LET run == handle_email_request(user_message, services.gmail_service,
                                         reply, outcome)
         IN  [raised |-> FALSE, ret |-> run.ret, ports |-> run.ports,
              log |-> recent_knowledge_searches]
    ELSE IF handler = "handle_analysis_request"
    THEN handle_analysis_request(user_message, reply, embed_fails)
    ELSE handle_knowledge_query(user_message, reply, embed_fails)

\* chat(user_message, chat_history); classify is the completion port's reply
\* to detect_user_intent, reply its reply to the handler
chat(user_message, chat_history, classify, reply, embed_fails, listing, outcome) ==
    LET intent == detect_user_intent(call_claude(classify))
        handler == HandlerFor(intent)
        run == RunHandler(handler, user_message, reply, embed_fails, listing, outcome)
    IN  [intent |-> intent,
         dispatcher_ports |-> <<[port |-> "complete"]>>,
         handlers |-> <<[handler |-> handler, user_message |-> user_message,
                         chat_history |-> chat_history]>>,
         ports |-> run.ports,
         ret |-> IF run.raised THEN "apology_from_chat" ELSE run.ret,
         log |-> run.log]

(***************************************************************************)
(* The agent with chat, with each of the service sets the constructor can  *)
(* end in.                                                                 *)
(***************************************************************************)
MaxChatRows == 1       \* rows the documents table may hold under SpecChat

ChatMessages ==
    {<<"x">>,
     <<"D", "r", "a", "f", "t", " ", "i", "t", " ", "n", "e", "x", "t", " ", "w", "e", "e", "k">>,
     <<"s", "e", "n", "d", " ", "i", "t">>}

ChatHistories == {<<>>, <<<<"user", <<"h", "i">>>>, <<"assistant", <<"h", "e", "l", "l", "o">>>>>>}

ClassifyReplies ==
    {Completed(KwCALENDAR), Completed(KwEMAIL), Completed(KwANALYSIS),
     Completed(<<"K", "N", "O", "W", "L", "E", "D", "G", "E">>),
     Completed(<<"E", "m", "a", "i", "l", ",", " ", "n", "o", "t", " ", "c", "a", "l", "e", "n", "d", "a", "r">>),
     Failed(<<"t", "i", "m", "e", "o", "u", "t">>)}

ChatReplies ==
    {Completed(<<"T", "O", ":", " ", "a", "@", "b", "\n", "S", "U", "B", "J", "E", "C", "T", ":", " ", "s", "\n", "B", "O", "D", "Y", ":", "\n", "h", "i">>),
     Completed(<<"h", "i">>),
     Failed(<<"t", "i", "m", "e", "o", "u", "t">>)}

InitChat ==
    /\ db = <<>>
    /\ document_chunks = BuildVectorIndex(<<>>, NoIndex, 0).document_chunks
    /\ vector_index = BuildVectorIndex(<<>>, NoIndex, 0).vector_index
    /\ recent_knowledge_searches = <<>>
    /\ services \in ServiceSets
    /\ rebuild = NoRebuild
    /\ call = Idle

\* the call record of a chat and the log it leaves
ChatDone(user_message, chat_history, classify, run) ==
    /\ call' = [op |-> "chat", user_message |-> user_message,
                chat_history |-> chat_history,
                classification |-> call_claude(classify),
                intent |-> run.intent,
                dispatcher_ports |-> run.dispatcher_ports,
                handlers |-> run.handlers, ports |-> run.ports,
                ret |-> run.ret]
    /\ recent_knowledge_searches' = run.log
    /\ UNCHANGED <<db, document_chunks, vector_index, services, rebuild>>

\* what the embedding, calendar and mail ports do during one chat; a handler
\* calls one of the three, so one of them at a time departs from success
PortWorlds ==
    {w \in [embed_fails : BOOLEAN, listing : CalendarOutcomes, outcome : PortOutcomes] :
        /\ w.embed_fails => (w.listing = "events" /\ w.outcome = "ok")
        /\ w.listing # "events" => w.outcome = "ok"}

\* SpecChat follows the agent through its ingests and failed searches up to
\* its first chat
NoChatYet == call.op # "chat"

Chat ==
    /\ NoChatYet
    /\ \E user_message \in ChatMessages, chat_history \in ChatHistories,
          classify \in ClassifyReplies, reply \in ChatReplies, w \in PortWorlds :
          ChatDone(user_message, chat_history, classify,
                   chat(user_message, chat_history, classify, reply,
                        w.embed_fails, w.listing, w.outcome))

ChatIngest == NoChatYet /\ AddDocument(DocNames, {"t1"}, MaxChatRows)

ChatSearchFails == NoChatYet /\ SearchRaises(Queries)

NextChat == ChatIngest \/ ChatSearchFails \/ Chat

SpecChat == InitChat /\ [][NextChat]_vars

(***************************************************************************)
(* C13: no failure of a port called inside chat, search_knowledge_base or  *)
(* add_document leaves the operation as an exception; the operation        *)
(* returns a message for the user instead.                                 *)
(***************************************************************************)
C13_NoExceptionEscapes ==
    call.op \in {"chat", "search_knowledge_base", "add_document"} => call.ret # "raised"

(***************************************************************************)
(* C19: chat invokes exactly one handler, the one of the classified        *)
(* intent, with the message and the chat history it was given; the port    *)
(* calls of retrieval, calendar and mail are made by the handler of the    *)
(* intent they belong to, none by the dispatcher.                          *)
(***************************************************************************)
HandlerOfIntent ==
    [CALENDAR |-> "handle_calendar_query", EMAIL |-> "handle_email_request",
     ANALYSIS |-> "handle_analysis_request", KNOWLEDGE |-> "handle_knowledge_query"]

PortsOfHandler ==
    [handle_calendar_query |-> {"list_events", "complete"},
     handle_email_request |-> {"complete", "send", "create_draft"},
     handle_analysis_request |-> {"retrieval", "complete"},
     handle_knowledge_query |-> {"retrieval", "complete"}]

C19_OneHandlerByIntent ==
    call.op = "chat" =>
        /\ call.intent \in Intents
        /\ call.intent = "CALENDAR" <=> Contains(Upper(call.classification), KwCALENDAR)
        /\ Len(call.handlers) = 1
        /\ call.handlers[1].handler = HandlerOfIntent[call.intent]
        /\ call.handlers[1].user_message = call.user_message
        /\ call.handlers[1].chat_history = call.chat_history
        /\ \A i \in 1..Len(call.dispatcher_ports) :
               call.dispatcher_ports[i].port \notin {"retrieval", "list_events",
                                                     "send", "create_draft"}
        /\ \A i \in 1..Len(call.ports) :
               /\ call.ports[i].port \in PortsOfHandler[HandlerOfIntent[call.intent]]
               /\ call.ports[i].port = "retrieval" =>
                      /\ call.ports[i].query = call.user_message
                      /\ call.ports[i].top_k =
                             IF call.intent = "ANALYSIS" THEN AnalysisTopK ELSE KnowledgeTopK

\* a chat with a history whose classification names EMAIL and then CALENDAR:
\* the calendar handler alone ran and listed events
C19_Witness ==
    /\ call.op = "chat"
    /\ call.chat_history # <<>>
    /\ Contains(Upper(call.classification), KwEMAIL)
    /\ call.intent = "CALENDAR"
    /\ call.handlers[1].handler = "handle_calendar_query"
    /\ \E i \in 1..Len(call.ports) : call.ports[i].port = "list_events"

(***************************************************************************)
(* C14: within every group of rows with the same title and source, the     *)
(* chunk_id values are exactly 0..m-1 for the m rows of the group, each    *)
(* value occurring once.                                                   *)
(***************************************************************************)
SameDocument(r, s) == r.title = s.title /\ r.source = s.source

C14_SequenceContiguous ==
    \A i \in 1..Len(db) :
        LET group == {j \in 1..Len(db) : SameDocument(db[i], db[j])}
        IN  /\ {db[j].chunk_id : j \in group} = 0..(Cardinality(group) - 1)
            /\ \A j, k \in group : j # k => db[j].chunk_id # db[k].chunk_id

(***************************************************************************)
(* C15: the overlap tail that seeds the buffer after a closed chunk is the *)
(* last floor(overlap/5) words of the closed buffer, or all its words if   *)
(* it has fewer, for every overlap >= 0: no word for overlap 0..4.         *)
(***************************************************************************)
\* the words of the k-th buffer of a run as it was when it was closed
BufferWords(run, k) == Split(ChunkPrefix(run, k) \o ChunkBody(run, k))

FloorTail(words, overlap) ==
    LET n == overlap \div 5
    IN  IF Len(words) > n THEN SubSeq(words, Len(words) - n + 1, Len(words)) ELSE words

C15_TailIsFloorWords ==
    call.op = "chunk_text" =>
        \A k \in 2..Len(call.run.parts) :
            call.run.parts[k].prefix =
                Join(FloorTail(BufferWords(call.run, k - 1), call.overlap))

(***************************************************************************)
(* add_document on one thread, statement by statement, with searches of    *)
(* another thread in between.  The rebuild in progress keeps the rows it   *)
(* fetched and the embeddings list it has built so far.                    *)
(***************************************************************************)
MaxRebuildRows == 3    \* rows the documents table may hold under SpecRebuild

\* lines 84-98 and 130-135: the rows are committed, build_vector_index empties
\* self.document_chunks and fetches the rows
IngestBegin ==
    /\ ~rebuild.active
    /\ NothingLogged
    /\ \E doc \in DocNames, title \in Titles :
          LET rows == db \o NewRows(db, title, doc, "manual")
          IN  /\ Len(rows) <= MaxRebuildRows
              /\ db' = rows
              /\ document_chunks' = <<>>
              /\ rebuild' = [active |-> TRUE, pc |-> "rows", title |-> title, doc |-> doc,
                             rows |-> rows, embeddings |-> <<>>]
    /\ UNCHANGED <<vector_index, recent_knowledge_searches, services, call>>

\* lines 137-140: one row is appended to self.document_chunks and embedded
BuildRow ==
    /\ rebuild.active
    /\ rebuild.pc = "rows"
    /\ Len(rebuild.embeddings) < Len(rebuild.rows)
    /\ LET row == rebuild.rows[Len(rebuild.embeddings) + 1]
       IN  /\ document_chunks' = Append(document_chunks, <<row.id, row.content>>)
           /\ rebuild' = [rebuild EXCEPT !.embeddings = Append(@, encode(Text(row.content)))]
    /\ UNCHANGED <<db, vector_index, recent_knowledge_searches, services, call>>

\* the call record of an add_document that has returned
Ingested(r) ==
    [op |-> "add_document", title |-> r.title, doc |-> r.doc,
     chunks |-> Len(DocChunks[r.doc]), ret |-> "ok"]

\* line 144 with no embedding: the index is left as it is
BuildNothing ==
    /\ rebuild.active
    /\ rebuild.pc = "rows"
    /\ rebuild.rows = <<>>
    /\ rebuild' = NoRebuild
    /\ call' = Ingested(rebuild)
    /\ UNCHANGED <<db, document_chunks, vector_index, recent_knowledge_searches, services>>

\* lines 144-149: self.vector_index is assigned a new index that has no vector yet
BuildPublish ==
    /\ rebuild.active
    /\ rebuild.pc = "rows"
    /\ rebuild.rows # <<>>
    /\ Len(rebuild.embeddings) = Len(rebuild.rows)
    /\ vector_index' = IndexFlatIP(<<>>)
    /\ rebuild' = [rebuild EXCEPT !.pc = "add"]
    /\ UNCHANGED <<db, document_chunks, recent_knowledge_searches, services, call>>

\* line 150: the normalized embeddings are added to it, add_document returns
BuildAdd ==
    /\ rebuild.active
    /\ rebuild.pc = "add"
    /\ vector_index' = IndexFlatIP([i \in 1..Len(rebuild.embeddings) |->
                                       normalize_L2(rebuild.embeddings[i])])
    /\ rebuild' = NoRebuild
    /\ call' = Ingested(rebuild)
    /\ UNCHANGED <<db, document_chunks, recent_knowledge_searches, services>>

NextRebuild == IngestBegin \/ BuildRow \/ BuildNothing \/ BuildPublish \/ BuildAdd \/ Search

SpecRebuild == Init /\ [][NextRebuild]_vars

(***************************************************************************)
(* C16: a search that runs while build_vector_index is executing sees a    *)
(* chunk list and an index that belong to the same complete build: both    *)
(* are those of a build over the first n rows of the store, for some n.    *)
(***************************************************************************)
SameCompleteBuild ==
    \E n \in 0..Len(db) :
        /\ Len(document_chunks) = n
        /\ IndexSize = n
        /\ \A i \in 1..n :
              /\ document_chunks[i] = <<db[i].id, db[i].content>>
              /\ vector_index.vectors[i] = normalize_L2(encode(Text(db[i].content)))

C16_NoPartialIndex ==
    [][(call'.op = "search_knowledge_base" /\ call' # call) => SameCompleteBuild']_vars

(***************************************************************************)
(* C17: the query vector handed to the index search is L2-normalized like  *)
(* the indexed vectors, so every score is the cosine of the query and the  *)
(* chunk whatever the length of the embeddings.  Stated for the searches   *)
(* on an index that matches the store and whose min_score is not below the *)
(* score of the index's padding, where each result is a chunk of the index *)
(* with its own score.                                                     *)
(***************************************************************************)
Cosine(u, v) == InnerProduct(normalize_L2(u), normalize_L2(v))

C17_ScoresAreCosines ==
    (Searched /\ IndexMatchesStore /\ call.min_score >= PadScore) =>
        \A i \in 1..Len(call.results) :
            call.results[i].relevance_score =
                Cosine(encode(call.query), encode(Text(call.results[i].content)))

(***************************************************************************)
(* C18: a search returns the entries of the index that pass the threshold  *)
(* and nothing else, for every top_k and every min_score: its results are, *)
(* in order, the hits at positions 0..N-1 that score above min_score, and  *)
(* the positions the index pads its answer with are skipped.  Stated for   *)
(* the searches on an index that matches the store.                        *)
(***************************************************************************)
LiveHit(h) == h.idx \in 0..(IndexSize - 1) /\ h.score > call.min_score

C18_OnlyLivePositions ==
    (Searched /\ IndexMatchesStore) =>
        LET live == SelectSeq(LastHits, LiveHit)
        IN  /\ Len(call.results) = Len(live)
            /\ Len(call.results) <= IndexSize
            /\ \A i \in 1..Len(live) :
                  /\ call.results[i].relevance_score = live[i].score
                  /\ call.results[i].content = document_chunks[live[i].idx + 1][2]

(***************************************************************************)
(* C20: whenever no build_vector_index call is executing, the chunk list   *)
(* and the index have the same number of entries and position i of both    *)
(* is the same chunk.                                                      *)
(***************************************************************************)
C20_ChunksMatchIndex ==
    ~rebuild.active =>
        /\ Len(document_chunks) = IndexSize
        /\ \A i \in 1..Len(document_chunks) :
              vector_index.vectors[i] = normalize_L2(encode(Text(document_chunks[i][2])))

(***************************************************************************)
(* C21: handle_email_request makes at most one call on the mail port, and  *)
(* the user message alone fixes which: with "draft" in the message, in any *)
(* letter case, the send port is never called; without it the create-draft *)
(* port is never called; when the mail service is not there no port is     *)
(* called, the completion port included.                                   *)
(***************************************************************************)
C21_OneMailEffectByMessage ==
    call.op = "handle_email_request" =>
        LET ports == call.result.ports
            sends == PortCalls(ports, "send")
            drafts == PortCalls(ports, "create_draft")
            has_draft == Contains(Lower(call.user_message), KwDraft)
        IN  /\ Cardinality(sends \cup drafts) <= 1
            /\ has_draft => sends = {}
            /\ ~has_draft => drafts = {}
            /\ ~services.gmail_service => ports = <<>>
            /\ services.gmail_service => Cardinality(PortCalls(ports, "complete")) = 1

\* a request with "Draft" in it, the composed email naming a recipient: the
\* draft is created for that recipient and nothing is sent
C21_Witness ==
    /\ Composed
    /\ ~Contains(call.user_message, KwDraft)
    /\ Contains(Lower(call.user_message), KwDraft)
    /\ PortCalls(call.result.ports, "send") = {}
    /\ \E i \in PortCalls(call.result.ports, "create_draft") :
          call.result.ports[i].to = <<"a", "@", "b">>

====
